---- MODULE Spec2Model ----
(***************************************************************************)
(* Model of wasmuri-text: the glyph atlas built by Font::new, the vertex   *)
(* buffer built by Font::create_text_model, and the render state cache of  *)
(* TextProgram / TextRenderer that Font::render_text_model goes through.   *)
(*                                                                         *)
(* f32 / f64 values are modelled as exact rationals <<num, den>> in lowest *)
(* terms (den > 0); rounding of the floating point operations is not       *)
(* modelled.  Option<T> is modelled as a sequence: <<>> is None and <<x>>  *)
(* is Some(x).                                                             *)
(***************************************************************************)
EXTENDS Integers, Sequences, FiniteSets, TLC

(***************************************************************************)
(* Bounds of the model                                                     *)
(***************************************************************************)
\* code points of the small character sets are 1..MaxCode
MaxCode == 3
\* longest enumerated character set
MaxChars == 3
\* longest text handed to create_text_model
MaxTextLen == 3
\* measured glyph widths are 0..MaxGlyphWidth
MaxGlyphWidth == 1
\* the measured height of the reference glyph is 1..MaxGlyphHeight
MaxGlyphHeight == 2
\* the font_size the atlases are rasterized at
FontSize == 2
\* largest character set 1..n that is built besides the enumerated ones
MaxGlyphCount == 100
\* fonts per renderer
MaxFonts == 2
\* text models per renderer
MaxModels == 2
\* the canvas is 1..MaxCanvas pixels wide and 1 pixel high
MaxCanvas == 2
\* draws that are followed after a start_rendering
MaxRun == 2

(***************************************************************************)
(* Rationals standing for the floats of the program                        *)
(***************************************************************************)
RECURSIVE GCD(_, _)
GCD(a, b) == IF b = 0 THEN a ELSE GCD(b, a % b)

Abs(x) == IF x < 0 THEN -x ELSE x

\* the rational n / d in lowest terms, d # 0
Rat(n, d) ==
    LET g == GCD(Abs(n), Abs(d))
        s == IF d < 0 THEN -1 ELSE 1
    IN  <<(s * n) \div g, (s * d) \div g>>

FromInt(n) == <<n, 1>>
Zero == <<0, 1>>
One == <<1, 1>>

RMul(a, b) == Rat(a[1] * b[1], a[2] * b[2])
RDiv(a, b) == Rat(a[1] * b[2], a[2] * b[1])
RLe(a, b) == a[1] * b[2] <= b[1] * a[2]
RLt(a, b) == a[1] * b[2] < b[1] * a[2]

\* ceil of the non-negative rational n / d
Ceil(n, d) == (n + d - 1) \div d

None == <<>>
Some(x) == <<x>>
IsSome(o) == o # <<>>
Unwrap(o) == o[1]

Range(s) == {s[i] : i \in DOMAIN s}

RECURSIVE SeqsUpTo(_, _)
SeqsUpTo(S, n) ==
    IF n = 0 THEN {<<>>}
    ELSE LET shorter == SeqsUpTo(S, n - 1)
         IN  shorter \cup {Append(s, x) : s \in {t \in shorter : Len(t) = n - 1}, x \in S}

(***************************************************************************)
(* character.rs                                                            *)
(***************************************************************************)
\* Character::new, mutated: the width is one pixel short
CharacterNewWidthOffByOne(texture_width, texture_height, min_x, min_y, max_x, max_y) ==
    LET float_width == texture_width + 1
        float_height == texture_height + 1
    IN  [min_u |-> Rat(min_x, float_width),
         min_v |-> Rat(max_y, float_height),
         max_u |-> Rat(max_x, float_width),
         max_v |-> Rat(min_y, float_height),
         width |-> max_x - min_x]

\* Character::new, mutated: the V axis is not flipped
CharacterNewUnflipped(texture_width, texture_height, min_x, min_y, max_x, max_y) ==
    LET float_width == texture_width + 1
        float_height == texture_height + 1
    IN  [min_u |-> Rat(min_x, float_width),
         min_v |-> Rat(min_y, float_height),
         max_u |-> Rat(max_x, float_width),
         max_v |-> Rat(max_y, float_height),
         width |-> max_x - min_x + 1]

\* Character::new, mutated: the x coordinates swapped
CharacterNewSwapped(texture_width, texture_height, min_x, min_y, max_x, max_y) ==
    LET float_width == texture_width + 1
        float_height == texture_height + 1
    IN  [min_u |-> Rat(max_x, float_width),
         min_v |-> Rat(max_y, float_height),
         max_u |-> Rat(min_x, float_width),
         max_v |-> Rat(min_y, float_height),
         width |-> max_x - min_x + 1]

CharacterNew(texture_width, texture_height, min_x, min_y, max_x, max_y) ==
    LET float_width == texture_width + 1
        float_height == texture_height + 1
    IN  [min_u |-> Rat(min_x, float_width),
         min_v |-> Rat(max_y, float_height),
         max_u |-> Rat(max_x, float_width),
         max_v |-> Rat(min_y, float_height),
         width |-> max_x - min_x + 1]

get_left_u(c) == c.min_u
get_bottom_v(c) == c.min_v
get_right_u(c) == c.max_u
get_top_v(c) == c.max_v
get_width(c) == c.width

(***************************************************************************)
(* font.rs: Font::new, the atlas construction                              *)
(***************************************************************************)
\* measure_text(character).width().ceil() of the rasterization surface
MeasureText(rast, c) == rast.widths[((c - 1) % MaxCode) + 1]

\* (char_counter as f64).sqrt().ceil()
CeilSqrt(n) == CHOOSE k \in 0..n : k * k >= n /\ \A j \in 0..(k - 1) : j * j < n

\* line_margin = (2.0 * line_width * font_size).ceil()
LineMargin(font_size, line_width) == Ceil(2 * line_width[1] * font_size, line_width[2])

RECURSIVE MaxCharCode(_, _, _)
MaxCharCode(chars, i, acc) ==
    IF i > Len(chars) THEN acc
    ELSE IF chars[i] > acc THEN MaxCharCode(chars, i + 1, chars[i])
    ELSE MaxCharCode(chars, i + 1, acc)

\* rows of the grid, mutated: the division rounded down
RowsRoundedDown(char_counter, chars_per_row) == char_counter \div chars_per_row

\* rows of the grid, from char_counter and chars_per_row (chars_per_row > 0)
Rows(char_counter, chars_per_row) ==
    LET divided == char_counter \div chars_per_row
    IN  IF divided * chars_per_row >= char_counter THEN divided ELSE divided + 1

\* current_width of a chunk, mutated: the margin is added once for a glyph
RECURSIVE RowWidthOneMargin(_, _, _, _, _)
RowWidthOneMargin(char_sizes, from, to, line_margin, current_width) ==
    IF from > to THEN current_width
    ELSE RowWidthOneMargin(char_sizes, from + 1, to, line_margin,
                           current_width + char_sizes[from][1] + line_margin)

\* current_width of the chunk of char_sizes that starts at index from
RECURSIVE RowWidth(_, _, _, _, _)
RowWidth(char_sizes, from, to, line_margin, current_width) ==
    IF from > to THEN current_width
    ELSE RowWidth(char_sizes, from + 1, to, line_margin,
                  current_width + char_sizes[from][1] + 2 * line_margin)

\* max_width over char_sizes.chunks(chars_per_row)
RECURSIVE TotalWidth(_, _, _, _, _)
TotalWidth(char_sizes, chars_per_row, line_margin, from, max_width) ==
    IF from > Len(char_sizes) THEN max_width
    ELSE LET to == IF from + chars_per_row - 1 > Len(char_sizes)
                   THEN Len(char_sizes) ELSE from + chars_per_row - 1
             current_width == RowWidth(char_sizes, from, to, line_margin, 0)
         IN  IF current_width > max_width
             THEN TotalWidth(char_sizes, chars_per_row, line_margin, to + 1, current_width)
             ELSE TotalWidth(char_sizes, chars_per_row, line_margin, to + 1, max_width)

\* the end of row test of the second loop, mutated: the row takes one glyph more
RowIsFullOneLate(chars_in_this_row, chars_per_row) == chars_in_this_row > chars_per_row

\* the end of row test of the second loop: chars_in_this_row >= chars_per_row
RowIsFull(chars_in_this_row, chars_per_row) == chars_in_this_row >= chars_per_row

\* the second loop over chars.chars(): places the glyphs and fills character_map; boxes
\* keeps the pixel box handed to Character::new for every character of chars, in order
RECURSIVE PlaceChars(_, _, _, _, _, _, _, _)
PlaceChars(chars, char_sizes, index, st, line_margin, max_height, chars_per_row, dims) ==
    IF index > Len(chars) THEN st
    ELSE LET min_x == st.draw_x
             draw_x == st.draw_x + char_sizes[index][1] + 2 * line_margin
             max_x == draw_x - line_margin
             max_y == st.min_y + max_height - 1
             character == CharacterNew(dims[1], dims[2], min_x, st.min_y, max_x, max_y)
             chars_in_this_row == st.chars_in_this_row + 1
             character_map == [st.character_map EXCEPT ![chars[index]] = Some(character)]
             boxes == Append(st.boxes, [min_x |-> min_x, min_y |-> st.min_y,
                                        max_x |-> max_x, max_y |-> max_y])
         IN  IF RowIsFull(chars_in_this_row, chars_per_row)
             THEN PlaceChars(chars, char_sizes, index + 1,
                             [draw_x |-> 0, min_y |-> st.min_y + max_height,
                              chars_in_this_row |-> 0, character_map |-> character_map,
                              boxes |-> boxes],
                             line_margin, max_height, chars_per_row, dims)
             ELSE PlaceChars(chars, char_sizes, index + 1,
                             [draw_x |-> draw_x, min_y |-> st.min_y,
                              chars_in_this_row |-> chars_in_this_row,
                              character_map |-> character_map, boxes |-> boxes],
                             line_margin, max_height, chars_per_row, dims)

\* Font::new up to the character map; panics on the division by chars_per_row = 0
FontNew(font_id, font_size, line_width, font_details, chars, rast, texture) ==
    LET char_counter == Len(chars)
        char_sizes == [i \in 1..char_counter |-> <<MeasureText(rast, chars[i]), rast.height>>]
        max_height == IF char_counter = 0 THEN 0 ELSE rast.height
        line_margin == LineMargin(font_size, line_width)
        max_char_code == MaxCharCode(chars, 1, 0)
        chars_per_row == CeilSqrt(char_counter)
    IN  IF chars_per_row = 0
        THEN [panic |-> "divide_by_zero"]
        ELSE LET rows == Rows(char_counter, chars_per_row)
                 total_width == TotalWidth(char_sizes, chars_per_row, line_margin, 1, 0)
                 total_height == rows * max_height
                 st0 == [draw_x |-> 0, min_y |-> 0, chars_in_this_row |-> 0,
                         character_map |-> [c \in 0..max_char_code |-> None],
                         boxes |-> <<>>]
                 placed == PlaceChars(chars, char_sizes, 1, st0, line_margin, max_height,
                                      chars_per_row, <<total_width, total_height>>)
             IN  [panic |-> "none",
                  font_details |-> font_details,
                  max_text_height |-> max_height,
                  aspect_ratio |-> One,
                  id |-> font_id,
                  characters |-> placed.character_map,
                  texture |-> texture,
                  \* locals of Font::new, kept to state the claims about the grid
                  chars |-> chars,
                  char_sizes |-> char_sizes,
                  boxes |-> placed.boxes,
                  chars_per_row |-> chars_per_row,
                  rows |-> rows,
                  total_width |-> total_width,
                  total_height |-> total_height,
                  line_margin |-> line_margin]

(***************************************************************************)
(* font.rs: Font::create_text_model                                        *)
(***************************************************************************)
position_floats_per_char == 12
texture_floats_per_char == 12

\* the six vertices, mutated: the other winding, (x0,y0) (x0,y1) (x1,y1) (x1,y1) (x1,y0) (x0,y0)
WriteQuadOtherWinding(data, offset, x0, y0, x1, y1) ==
    [k \in DOMAIN data |->
        IF k = offset + 1 THEN x0 ELSE IF k = offset + 2 THEN y0
        ELSE IF k = offset + 3 THEN x0 ELSE IF k = offset + 4 THEN y1
        ELSE IF k = offset + 5 THEN x1 ELSE IF k = offset + 6 THEN y1
        ELSE IF k = offset + 7 THEN x1 ELSE IF k = offset + 8 THEN y1
        ELSE IF k = offset + 9 THEN x1 ELSE IF k = offset + 10 THEN y0
        ELSE IF k = offset + 11 THEN x0 ELSE IF k = offset + 12 THEN y0
        ELSE data[k]]

\* the six vertices written for one character: (x0,y0) (x1,y0) (x1,y1) (x1,y1) (x0,y1) (x0,y0)
WriteQuad(data, offset, x0, y0, x1, y1) ==
    [k \in DOMAIN data |->
        IF k = offset + 1 THEN x0 ELSE IF k = offset + 2 THEN y0
        ELSE IF k = offset + 3 THEN x1 ELSE IF k = offset + 4 THEN y0
        ELSE IF k = offset + 5 THEN x1 ELSE IF k = offset + 6 THEN y1
        ELSE IF k = offset + 7 THEN x1 ELSE IF k = offset + 8 THEN y1
        ELSE IF k = offset + 9 THEN x0 ELSE IF k = offset + 10 THEN y1
        ELSE IF k = offset + 11 THEN x0 ELSE IF k = offset + 12 THEN y0
        ELSE data[k]]

\* pos_factor_x = 1.0 / self.max_text_height, mutated: the height of the atlas image
PosFactorXOfAtlasHeight(font) == RDiv(One, FromInt(font.total_height))

\* pos_factor_x = 1.0 / self.max_text_height
PosFactorX(font) == RDiv(One, FromInt(font.max_text_height))

\* the first loop over text.chars(): the position quads; self.characters[text_char as usize]
\* panics when text_char is not an index of the vector
RECURSIVE PositionLoop(_, _, _, _)
PositionLoop(font, text, char_index, st) ==
    IF char_index >= Len(text) THEN st
    ELSE LET text_char == text[char_index + 1]
         IN  IF text_char \notin DOMAIN font.characters
             THEN [st EXCEPT !.panic = "index_out_of_bounds"]
             ELSE LET maybe_texture_char == font.characters[text_char]
                  IN  IF IsSome(maybe_texture_char)
                      THEN LET texture_char == Unwrap(maybe_texture_char)
                               pos_factor_x == PosFactorX(font)
                               offset == char_index * position_floats_per_char
                               min_x == RMul(FromInt(st.pos_x), pos_factor_x)
                               pos_x == st.pos_x + get_width(texture_char)
                               max_x == RMul(FromInt(pos_x), pos_factor_x)
                           IN  PositionLoop(font, text, char_index + 1,
                                  [st EXCEPT !.pos_x = pos_x,
                                             !.buffer_data = WriteQuad(@, offset, min_x, Zero, max_x, One)])
                      ELSE PositionLoop(font, text, char_index + 1,
                                  [st EXCEPT !.diag = Append(@, text_char)])

\* the second loop over text.chars(): the texture coordinate quads
RECURSIVE TextureLoop(_, _, _, _)
TextureLoop(font, text, char_index, st) ==
    IF char_index >= Len(text) THEN st
    ELSE LET text_char == text[char_index + 1]
             maybe_texture_char == font.characters[text_char]
         IN  IF IsSome(maybe_texture_char)
             THEN LET texture_char == Unwrap(maybe_texture_char)
                      offset == position_floats_per_char * Len(text)
                                + char_index * texture_floats_per_char
                  IN  TextureLoop(font, text, char_index + 1,
                         [st EXCEPT !.buffer_data =
                             WriteQuad(@, offset, get_left_u(texture_char), get_bottom_v(texture_char),
                                       get_right_u(texture_char), get_top_v(texture_char))])
             ELSE TextureLoop(font, text, char_index + 1,
                         [st EXCEPT !.diag = Append(@, text_char)])

\* TextModel::new, mutated: four vertices for a character
TextModelNewFourVertices(font, buffer, buffer_data, char_count, total_width) ==
    [font |-> font,
     buffer |-> buffer,
     buffer_data |-> buffer_data,
     vertex_count |-> char_count * 4,
     total_width |-> total_width]

\* TextModel::new
TextModelNew(font, buffer, buffer_data, char_count, total_width) ==
    [font |-> font,
     buffer |-> buffer,
     buffer_data |-> buffer_data,
     vertex_count |-> char_count * 6,
     total_width |-> total_width]

\* Font::create_text_model: the model, the diagnostics logged and the panic, if any
CreateTextModelOf(f, font, text, buffer) ==
    LET char_counter == Len(text)
        st0 == [panic |-> "none", pos_x |-> 0, diag |-> <<>>,
                buffer_data |-> [k \in 1..((position_floats_per_char + texture_floats_per_char)
                                           * char_counter) |-> Zero]]
        st1 == PositionLoop(font, text, 0, st0)
    IN  IF st1.panic # "none"
        THEN [panic |-> st1.panic, diag |-> st1.diag, model |-> None]
        ELSE LET max_width == RMul(FromInt(st1.pos_x), PosFactorX(font))
                 st2 == TextureLoop(font, text, 0, st1)
             IN  [panic |-> "none", diag |-> st2.diag,
                  model |-> Some(TextModelNew(f, buffer, st2.buffer_data, char_counter, max_width))]

(***************************************************************************)
(* The state: one TextRenderer, its fonts, the text models made by them,   *)
(* the WebGL context as far as the program drives it, and the rasterizer   *)
(* the atlas construction measures with.                                   *)
(***************************************************************************)
VARIABLES
    fonts,          \* TextRenderer.fonts: Vec<Font>
    font_size,      \* TextRenderer.font_size
    line_width,     \* TextRenderer.line_width
    all_chars,      \* TextRenderer.all_chars: the code points, in order
    selected_font,  \* TextRenderer.selected_font: Option<FontID>
    shader,         \* TextRenderer.shader_program: the cached uniform values
    gl,             \* the WebGL context: bound texture and uniform values
    models,         \* the TextModels created so far
    rast,           \* the rasterization surface: measured widths and height
    panic,          \* "none", or the panic that aborted the program
    dropped,        \* the owners destroyed so far: the renderer, and the text models
    last,           \* the last operation: arguments, WebGL calls, diagnostics, result
    run             \* the draws made in a row since the last start_rendering

vars == <<fonts, font_size, line_width, all_chars, selected_font, shader, gl, models,
          rast, panic, dropped, last, run>>

\* Color::from_rgba values used by the draws
TransparentBlack == <<0, 0, 0, 0>>
Red == <<255, 0, 0, 255>>
Blue == <<0, 0, 255, 255>>

\* the only FontDetails of the model
Arial == <<"bold", "Arial">>

\* FontID::new and FontID::get_value
FontIDNew(value) == [value |-> value]
get_value(font_id) == font_id.value

\* Font::get_id
get_id(font) == font.id

\* the texture handle gl.create_texture() returns for the k-th font of the renderer
TextureOf(k) == k

\* a WebGL call: its name, the uniform or target it goes to, and its integer argument
Call(name, target, n) == [call |-> name, target |-> target, n |-> n]

\* TextProgram::create_instance: the cached values of the five uniforms
CreateInstance ==
    [current_screen_position |-> <<Zero, Zero>>,
     current_scale |-> <<Zero, Zero>>,
     current_fill_color |-> TransparentBlack,
     current_stroke_color |-> TransparentBlack,
     current_background_color |-> TransparentBlack]

\* the WebGL context after the program is linked: uniforms hold their default of zero
GLInit ==
    [bound_texture |-> None,
     program_in_use |-> FALSE,
     blend |-> FALSE,
     textureSampler |-> 0,
     screenPosition |-> <<Zero, Zero>>,
     scale |-> <<Zero, Zero>>,
     fillColor |-> TransparentBlack,
     strokeColor |-> TransparentBlack,
     backgroundColor |-> TransparentBlack,
     deleted |-> <<>>]

(***************************************************************************)
(* shaders.rs: the setters of TextProgram.  st is the shader cache, the    *)
(* WebGL context and the WebGL calls issued so far by the operation.       *)
(***************************************************************************)
set_texture_sampler(st, texture_unit) ==
    [st EXCEPT !.gl.textureSampler = texture_unit,
               !.calls = Append(@, Call("uniform1i", "textureSampler", texture_unit))]

set_screen_position(st, x, y) ==
    IF st.shader.current_screen_position # <<x, y>>
    THEN [st EXCEPT !.gl.screenPosition = <<x, y>>,
                    !.calls = Append(@, Call("uniform2f", "screenPosition", 0)),
                    !.shader.current_screen_position = <<x, y>>]
    ELSE st

\* set_scale, mutated: the cached value is not updated
set_scale_uncached(st, x, y) ==
    IF st.shader.current_scale # <<x, y>>
    THEN [st EXCEPT !.gl.scale = <<x, y>>,
                    !.calls = Append(@, Call("uniform2f", "scale", 0))]
    ELSE st

set_scale(st, x, y) ==
    IF st.shader.current_scale # <<x, y>>
    THEN [st EXCEPT !.gl.scale = <<x, y>>,
                    !.calls = Append(@, Call("uniform2f", "scale", 0)),
                    !.shader.current_scale = <<x, y>>]
    ELSE st

set_background_color(st, background) ==
    IF st.shader.current_background_color # background
    THEN [st EXCEPT !.gl.backgroundColor = background,
                    !.calls = Append(@, Call("uniform4f", "backgroundColor", 0)),
                    !.shader.current_background_color = background]
    ELSE st

\* set_fill_color, mutated: the fill color is compared with the cached stroke color
set_fill_color_compared_to_stroke(st, fill) ==
    IF st.shader.current_stroke_color # fill
    THEN [st EXCEPT !.gl.fillColor = fill,
                    !.calls = Append(@, Call("uniform4f", "fillColor", 0)),
                    !.shader.current_fill_color = fill]
    ELSE st

set_fill_color(st, fill) ==
    IF st.shader.current_fill_color # fill
    THEN [st EXCEPT !.gl.fillColor = fill,
                    !.calls = Append(@, Call("uniform4f", "fillColor", 0)),
                    !.shader.current_fill_color = fill]
    ELSE st

\* set_stroke_color, mutated: the cached value is updated and the uniform is not written
set_stroke_color_unwritten(st, stroke) ==
    IF st.shader.current_stroke_color # stroke
    THEN [st EXCEPT !.shader.current_stroke_color = stroke]
    ELSE st

set_stroke_color(st, stroke) ==
    IF st.shader.current_stroke_color # stroke
    THEN [st EXCEPT !.gl.strokeColor = stroke,
                    !.calls = Append(@, Call("uniform4f", "strokeColor", 0)),
                    !.shader.current_stroke_color = stroke]
    ELSE st

\* the font selection check, mutated: no font selected counts as nothing to set
NeedSetFontOnlyWhenOther(sel, font) == IF IsSome(sel) THEN Unwrap(sel) # font.id ELSE FALSE

\* the font selection check of render_text_model, mutated: the texture is always bound
NeedSetFontAlways(sel, font) == TRUE

\* the font selection check of render_text_model
NeedSetFont(sel, font) == IF IsSome(sel) THEN Unwrap(sel) # font.id ELSE TRUE

\* Font::set_current
set_current(st, font) ==
    set_texture_sampler(
        [st EXCEPT !.gl.bound_texture = Some(font.texture),
                   !.calls = @ \o <<Call("active_texture", "TEXTURE0", 0),
                                    Call("bind_texture", "TEXTURE_2D", font.texture)>>],
        0)

\* TextModel::bind, mutated: the offset of the texture coordinates counts one component
\* for a vertex
bind_one_component(st, model) ==
    LET f32_size == 4
    IN  [st EXCEPT !.calls = @ \o <<Call("bind_buffer", "ARRAY_BUFFER", model.buffer),
                                    Call("vertex_attrib_pointer", "relativePosition", 0),
                                    Call("enable_vertex_attrib_array", "relativePosition", 0),
                                    Call("vertex_attrib_pointer", "textureCoords",
                                         f32_size * model.vertex_count),
                                    Call("enable_vertex_attrib_array", "textureCoords", 0)>>]

\* TextModel::bind
bind(st, model) ==
    LET num_components == 2
        f32_size == 4
    IN  [st EXCEPT !.calls = @ \o <<Call("bind_buffer", "ARRAY_BUFFER", model.buffer),
                                    Call("vertex_attrib_pointer", "relativePosition", 0),
                                    Call("enable_vertex_attrib_array", "relativePosition", 0),
                                    Call("vertex_attrib_pointer", "textureCoords",
                                         f32_size * num_components * model.vertex_count),
                                    Call("enable_vertex_attrib_array", "textureCoords", 0)>>]

\* render_text_model, mutated: the vertex buffer is bound before the uniforms are written
RenderTextModelOfBufferFirst(font, model, a, sel, sh, g) ==
    LET need_set_font == NeedSetFont(sel, font)
        st0 == [shader |-> sh, gl |-> g, calls |-> <<>>]
        st1 == IF need_set_font THEN set_current(st0, font) ELSE st0
        sel1 == IF need_set_font THEN Some(font.id) ELSE sel
        scale_x == RDiv(a.scale_y, font.aspect_ratio)
        st2 == bind(st1, model)
        st3 == set_background_color(st2, a.background_color)
        st4 == set_fill_color(st3, a.fill_color)
        st5 == set_stroke_color(st4, a.stroke_color)
        st6 == set_screen_position(st5, a.offset_x, a.offset_y)
        st7 == set_scale(st6, scale_x, a.scale_y)
        st8 == [st7 EXCEPT !.calls = Append(@, Call("draw_arrays", "TRIANGLES", model.vertex_count))]
    IN  [shader |-> st8.shader, gl |-> st8.gl, calls |-> st8.calls, selected_font |-> sel1]

\* Font::render_text_model (TextModel::render has the same body): the shader cache, the
\* WebGL context, the calls issued and the font selection after the draw
RenderTextModelOf(font, model, a, sel, sh, g) ==
    LET need_set_font == NeedSetFont(sel, font)
        st0 == [shader |-> sh, gl |-> g, calls |-> <<>>]
        st1 == IF need_set_font THEN set_current(st0, font) ELSE st0
        sel1 == IF need_set_font THEN Some(font.id) ELSE sel
        scale_x == RDiv(a.scale_y, font.aspect_ratio)
        st2 == set_background_color(st1, a.background_color)
        st3 == set_fill_color(st2, a.fill_color)
        st4 == set_stroke_color(st3, a.stroke_color)
        st5 == set_screen_position(st4, a.offset_x, a.offset_y)
        st6 == set_scale(st5, scale_x, a.scale_y)
        st7 == bind(st6, model)
        st8 == [st7 EXCEPT !.calls = Append(@, Call("draw_arrays", "TRIANGLES", model.vertex_count))]
    IN  [shader |-> st8.shader, gl |-> st8.gl, calls |-> st8.calls, selected_font |-> sel1]

\* get_render_width, mutated: the aspect ratio is left out
GetRenderWidthOfNoAspect(font, model, scale_y) == RMul(scale_y, model.total_width)

\* Font::get_render_width (TextModel::get_render_width has the same body)
GetRenderWidthOf(font, model, scale_y) ==
    LET scale_x == RDiv(scale_y, font.aspect_ratio)
    IN  RMul(scale_x, model.total_width)

(***************************************************************************)
(* The Drop implementations.  A handle of the WebGL context is its kind    *)
(* and its number; gl.deleted keeps the handles deleted so far, in order.  *)
(***************************************************************************)
TextureHandle(texture) == <<"texture", texture>>
BufferHandle(buffer) == <<"buffer", buffer>>
ProgramHandle == <<"program", 0>>
VertexShaderHandle == <<"vertex_shader", 0>>
FragmentShaderHandle == <<"fragment_shader", 0>>

\* Drop for Font, mutated: the texture of the first font of the renderer is deleted
DropFontOfFirstTexture(st, font) ==
    [st EXCEPT !.gl.deleted = Append(@, TextureHandle(TextureOf(1))),
               !.gl.bound_texture = IF @ = Some(TextureOf(1)) THEN None ELSE @,
               !.calls = Append(@, Call("delete_texture", "TEXTURE_2D", TextureOf(1)))]

\* Drop for Font: gl.delete_texture(self.texture); a deleted texture is no longer bound
DropFont(st, font) ==
    [st EXCEPT !.gl.deleted = Append(@, TextureHandle(font.texture)),
               !.gl.bound_texture = IF @ = Some(font.texture) THEN None ELSE @,
               !.calls = Append(@, Call("delete_texture", "TEXTURE_2D", font.texture))]

\* Drop for TextModel: gl.delete_buffer(self.buffer)
DropTextModel(st, model) ==
    [st EXCEPT !.gl.deleted = Append(@, BufferHandle(model.buffer)),
               !.calls = Append(@, Call("delete_buffer", "ARRAY_BUFFER", model.buffer))]

\* Drop for TextProgram: delete_program, then delete_shader of the two shaders
DropTextProgram(st) ==
    [st EXCEPT !.gl.deleted = @ \o <<ProgramHandle, VertexShaderHandle, FragmentShaderHandle>>,
               !.gl.program_in_use = FALSE,
               !.calls = @ \o <<Call("delete_program", "program", 0),
                                Call("delete_shader", "vertex_shader", 0),
                                Call("delete_shader", "fragment_shader", 0)>>]

\* the fonts of the vector are dropped in order
RECURSIVE DropFonts(_, _, _)
DropFonts(st, the_fonts, k) ==
    IF k > Len(the_fonts) THEN st
    ELSE DropFonts(DropFont(st, the_fonts[k]), the_fonts, k + 1)

\* a TextRenderer goes out of scope: its fields are dropped in the order of their
\* declaration, the fonts before the shader program
DropTextRendererOf(st, the_fonts) == DropTextProgram(DropFonts(st, the_fonts, 1))

(***************************************************************************)
(* Inputs of the operations                                                *)
(***************************************************************************)
\* line_width values: 0 and 1/4 of the font size
LineWidths == {Zero, Rat(1, 4)}

\* the character sets the atlas is built for: every sequence of at most MaxChars code
\* points of 1..MaxCode (repetitions included), and the sets 1..n up to MaxGlyphCount
SmallCharSets == SeqsUpTo(1..MaxCode, MaxChars)
LargeCharSets == {[i \in 1..n |-> i] : n \in (MaxChars + 1)..MaxGlyphCount}

\* the texts compiled against one atlas; MaxCode + 1 is above every code point of a
\* small character set
Texts == SeqsUpTo(1..(MaxCode + 1), MaxTextLen)

\* the character set and the texts of the renderer whose draws are followed
RendererChars == <<1, 3>>
RendererTexts == {<<1>>, <<3, 1>>}

\* what gl.canvas() gives: None, or a canvas of some width and height
Canvases == {None} \cup {Some(<<w, 1>>) : w \in 1..MaxCanvas}

DrawArgs(ox, oy, sy, fill, stroke, background) ==
    [offset_x |-> ox, offset_y |-> oy, scale_y |-> sy,
     fill_color |-> fill, stroke_color |-> stroke, background_color |-> background]

\* the argument tuples of the draws; the first equals the values the cache starts with
DrawArgSet ==
    {DrawArgs(Zero, Zero, Zero, TransparentBlack, TransparentBlack, TransparentBlack),
     DrawArgs(One, Zero, One, Red, Blue, TransparentBlack),
     DrawArgs(Zero, One, FromInt(2), Red, Red, Red)}

ScaleYs == {a.scale_y : a \in DrawArgSet}

(***************************************************************************)
(* Record of the last operation and of the one before                      *)
(***************************************************************************)
\* repeat: the operation is a draw, and so was the operation before, of the same font with
\* the same arguments; after: the font of the latest draw before the operation, 0 if none
Op(name, font, model, args, calls, diag, result) ==
    [op |-> name, font |-> font, model |-> model, args |-> args,
     calls |-> calls, diag |-> diag, result |-> result,
     repeat |-> name = "render_text_model" /\ last.op = name /\ last.font = font
                /\ last.args = args,
     after |-> IF last.op = "render_text_model" THEN last.font ELSE last.after]

IsDraw(name) == name = "render_text_model"

IsTextureBind(c) == c.call = "bind_texture"
IsSamplerSet(c) == c.call = "uniform1i" /\ c.target = "textureSampler"
IsUniformWrite(c) == c.call \in {"uniform2f", "uniform4f"}

CountCalls(calls, P(_)) == Cardinality({i \in DOMAIN calls : P(calls[i])})

\* no draws are followed: no start_rendering yet, or another operation came between
NoRun == [draws |-> 0, open |-> FALSE, binds |-> 0, fonts |-> {}, models |-> {}]

\* start_rendering opens a run, draws extend it up to MaxRun, any other operation ends it
RunAfter(name, font, model, calls) ==
    IF name = "start_rendering" THEN [NoRun EXCEPT !.open = TRUE]
    ELSE IF name = "render_text_model" /\ run.open /\ run.draws < MaxRun
    THEN [draws |-> run.draws + 1, open |-> TRUE,
          binds |-> run.binds + CountCalls(calls, IsTextureBind),
          fonts |-> run.fonts \cup {font}, models |-> run.models \cup {model}]
    ELSE NoRun

(***************************************************************************)
(* lib.rs: TextRenderer                                                    *)
(***************************************************************************)
\* the WebGL calls of Font::new
FontNewCalls(texture) ==
    <<Call("create_texture", "TEXTURE_2D", texture),
      Call("bind_texture", "TEXTURE_2D", texture),
      Call("tex_image_2d", "TEXTURE_2D", texture)>>

\* TextRenderer::from_rc with the given public fields and rasterizer
FromRc(chars, size, width, r) ==
    /\ fonts = <<>>
    /\ font_size = size
    /\ line_width = width
    /\ all_chars = chars
    /\ selected_font = None
    /\ shader = CreateInstance
    /\ gl = GLInit
    /\ models = <<>>
    /\ rast = r
    /\ panic = "none"
    /\ dropped = [renderer |-> FALSE, models |-> {}]
    /\ last = [op |-> "from_rc", font |-> 0, model |-> 0, args |-> None, calls |-> <<>>,
               diag |-> <<>>, result |-> None, repeat |-> FALSE, after |-> 0]
    /\ run = NoRun

\* TextRenderer::add_font
AddFont ==
    /\ panic = "none"
    /\ LET texture == TextureOf(Len(fonts) + 1)
           font == FontNew(FontIDNew(Len(fonts)), font_size, line_width, Arial,
                           all_chars, rast, texture)
       IN  IF font.panic # "none"
           THEN /\ panic' = font.panic
                /\ last' = Op("add_font", 0, 0, None, <<>>, <<>>, None)
                /\ UNCHANGED <<fonts, gl>>
           ELSE /\ fonts' = Append(fonts, font)
                /\ gl' = [gl EXCEPT !.bound_texture = Some(texture)]
                /\ last' = Op("add_font", Len(fonts) + 1, 0, None, FontNewCalls(texture),
                              <<>>, None)
                /\ UNCHANGED panic
    /\ run' = RunAfter(last'.op, last'.font, last'.model, last'.calls)
    /\ UNCHANGED <<font_size, line_width, all_chars, selected_font, shader, models, rast, dropped>>

\* the loop of add_fonts: every font gets FontID::new(self.fonts.len()), and self.fonts
\* grows only after the loop
RECURSIVE NewFonts(_, _, _)
NewFonts(details, k, new_fonts) ==
    IF k > Len(details) THEN new_fonts
    ELSE NewFonts(details, k + 1,
                  Append(new_fonts,
                         FontNew(FontIDNew(Len(fonts)), font_size, line_width, details[k],
                                 all_chars, rast, TextureOf(Len(fonts) + k))))

RECURSIVE NewFontsCalls(_, _)
NewFontsCalls(new_fonts, k) ==
    IF k > Len(new_fonts) THEN <<>>
    ELSE FontNewCalls(new_fonts[k].texture) \o NewFontsCalls(new_fonts, k + 1)

\* TextRenderer::add_fonts
AddFonts(details) ==
    /\ panic = "none"
    /\ LET new_fonts == NewFonts(details, 1, <<>>)
       IN  IF \E k \in DOMAIN new_fonts : new_fonts[k].panic # "none"
           THEN /\ panic' = "divide_by_zero"
                /\ last' = Op("add_fonts", 0, 0, None, <<>>, <<>>, None)
                /\ UNCHANGED <<fonts, gl>>
           ELSE /\ fonts' = fonts \o new_fonts
                /\ gl' = IF new_fonts = <<>> THEN gl
                         ELSE [gl EXCEPT !.bound_texture =
                                             Some(new_fonts[Len(new_fonts)].texture)]
                /\ last' = Op("add_fonts", Len(fonts) + Len(new_fonts), 0, None,
                              NewFontsCalls(new_fonts, 1), <<>>, None)
                /\ UNCHANGED panic
    /\ run' = RunAfter(last'.op, last'.font, last'.model, last'.calls)
    /\ UNCHANGED <<font_size, line_width, all_chars, selected_font, shader, models, rast, dropped>>

\* Font::set_aspect_ratio, mutated: the text height is rescaled with the aspect ratio
set_aspect_ratio_scaling_height(font, aspect_ratio) ==
    [font EXCEPT !.aspect_ratio = aspect_ratio,
                 !.max_text_height = @ * aspect_ratio[1]]

\* Font::set_aspect_ratio
set_aspect_ratio(font, aspect_ratio) == [font EXCEPT !.aspect_ratio = aspect_ratio]

\* TextRenderer::start_rendering
StartRendering(maybe_bound_canvas) ==
    /\ panic = "none"
    /\ selected_font' = None
    /\ IF IsSome(maybe_bound_canvas)
       THEN LET bound_canvas == Unwrap(maybe_bound_canvas)
                aspect_ratio == Rat(bound_canvas[1], bound_canvas[2])
            IN  /\ fonts' = [k \in DOMAIN fonts |-> set_aspect_ratio(fonts[k], aspect_ratio)]
                /\ gl' = [gl EXCEPT !.program_in_use = TRUE, !.blend = TRUE]
                /\ last' = Op("start_rendering", 0, 0, None,
                              <<Call("use_program", "program", 0),
                                Call("enable", "BLEND", 0),
                                Call("blend_func_separate", "BLEND", 0)>>, <<>>, None)
       ELSE /\ UNCHANGED <<fonts, gl>>
            /\ last' = Op("start_rendering", 0, 0, None, <<>>, <<>>, None)
    /\ run' = RunAfter(last'.op, last'.font, last'.model, last'.calls)
    /\ UNCHANGED <<font_size, line_width, all_chars, shader, models, rast, panic, dropped>>

\* TextRenderer::get_font_by_id, called with the id of the f-th font
GetFontById(f) ==
    /\ panic = "none"
    /\ f \in DOMAIN fonts
    /\ LET font_id == get_id(fonts[f])
           index == get_value(font_id) + 1
       IN  IF index \in DOMAIN fonts
           THEN /\ last' = Op("get_font_by_id", f, 0, None, <<>>, <<>>, Some(FromInt(index)))
                /\ UNCHANGED panic
           ELSE /\ last' = Op("get_font_by_id", f, 0, None, <<>>, <<>>, None)
                /\ panic' = "index_out_of_bounds"
    /\ run' = RunAfter(last'.op, last'.font, last'.model, last'.calls)
    /\ UNCHANGED <<fonts, font_size, line_width, all_chars, selected_font, shader, gl,
                   models, rast, dropped>>

\* assignments to the public fields font_size, line_width and all_chars of a TextRenderer
SetFontSize(size) ==
    /\ panic = "none"
    /\ font_size' = size
    /\ last' = Op("set_font_size", 0, 0, None, <<>>, <<>>, None)
    /\ run' = RunAfter(last'.op, last'.font, last'.model, last'.calls)
    /\ UNCHANGED <<fonts, line_width, all_chars, selected_font, shader, gl, models, rast, panic, dropped>>

SetLineWidth(width) ==
    /\ panic = "none"
    /\ line_width' = width
    /\ last' = Op("set_line_width", 0, 0, None, <<>>, <<>>, None)
    /\ run' = RunAfter(last'.op, last'.font, last'.model, last'.calls)
    /\ UNCHANGED <<fonts, font_size, all_chars, selected_font, shader, gl, models, rast, panic, dropped>>

SetAllChars(chars) ==
    /\ panic = "none"
    /\ all_chars' = chars
    /\ last' = Op("set_all_chars", 0, 0, None, <<>>, <<>>, None)
    /\ run' = RunAfter(last'.op, last'.font, last'.model, last'.calls)
    /\ UNCHANGED <<fonts, font_size, line_width, selected_font, shader, gl, models, rast, panic, dropped>>

(***************************************************************************)
(* font.rs and model.rs: the operations of a Font and of a TextModel       *)
(***************************************************************************)
\* Font::create_text_model of the f-th font
CreateTextModel(f, text) ==
    /\ panic = "none"
    /\ f \in DOMAIN fonts
    /\ LET buffer == Len(models) + 1
           made == CreateTextModelOf(f, fonts[f], text, buffer)
           created == <<Call("create_buffer", "ARRAY_BUFFER", buffer),
                        Call("bind_buffer", "ARRAY_BUFFER", buffer)>>
       IN  /\ IF made.panic # "none"
              THEN /\ panic' = made.panic
                   /\ last' = Op("create_text_model", f, 0, Some(text), created, made.diag, None)
                   /\ UNCHANGED models
              ELSE /\ models' = Append(models, Unwrap(made.model))
                   /\ last' = Op("create_text_model", f, Len(models) + 1, Some(text),
                                 Append(created, Call("buffer_data", "ARRAY_BUFFER", buffer)),
                                 made.diag, None)
                   /\ UNCHANGED panic
    /\ run' = RunAfter(last'.op, last'.font, last'.model, last'.calls)
    /\ UNCHANGED <<fonts, font_size, line_width, all_chars, selected_font, shader, gl, rast, dropped>>

\* a draw of the m-th model by its font
Draw(m, a) ==
    /\ panic = "none"
    /\ m \in DOMAIN models
    /\ LET model == models[m]
           font == fonts[model.font]
           drawn == RenderTextModelOf(font, model, a, selected_font, shader, gl)
       IN  /\ selected_font' = drawn.selected_font
           /\ shader' = drawn.shader
           /\ gl' = drawn.gl
           /\ last' = Op("render_text_model", model.font, m, Some(a), drawn.calls, <<>>, None)
    /\ run' = RunAfter(last'.op, last'.font, last'.model, last'.calls)
    /\ UNCHANGED <<fonts, font_size, line_width, all_chars, models, rast, panic, dropped>>

\* Font::render_text_model with a model created by that font
RenderTextModel(m, a) == Draw(m, a)

\* TextModel::render
Render(m, a) == Draw(m, a)

\* Font::get_render_width and TextModel::get_render_width
GetRenderWidth(m, scale_y) ==
    /\ panic = "none"
    /\ m \in DOMAIN models
    /\ last' = Op("get_render_width", models[m].font, m, Some(scale_y), <<>>, <<>>,
                  Some(GetRenderWidthOf(fonts[models[m].font], models[m], scale_y)))
    /\ run' = RunAfter(last'.op, last'.font, last'.model, last'.calls)
    /\ UNCHANGED <<fonts, font_size, line_width, all_chars, selected_font, shader, gl,
                   models, rast, panic, dropped>>

\* the m-th TextModel goes out of scope
DropModel(m) ==
    /\ panic = "none"
    /\ m \in DOMAIN models
    /\ m \notin dropped.models
    /\ LET st == DropTextModel([shader |-> shader, gl |-> gl, calls |-> <<>>], models[m])
       IN  /\ gl' = st.gl
           /\ last' = Op("drop_text_model", models[m].font, m, None, st.calls, <<>>, None)
    /\ dropped' = [dropped EXCEPT !.models = @ \cup {m}]
    /\ run' = RunAfter(last'.op, last'.font, last'.model, last'.calls)
    /\ UNCHANGED <<fonts, font_size, line_width, all_chars, selected_font, shader, models,
                   rast, panic>>

\* the TextRenderer goes out of scope, with its fonts and its shader program
DropTextRenderer ==
    /\ panic = "none"
    /\ ~dropped.renderer
    /\ LET st == DropTextRendererOf([shader |-> shader, gl |-> gl, calls |-> <<>>], fonts)
       IN  /\ gl' = st.gl
           /\ last' = Op("drop_text_renderer", 0, 0, None, st.calls, <<>>, None)
    /\ dropped' = [dropped EXCEPT !.renderer = TRUE]
    /\ run' = RunAfter(last'.op, last'.font, last'.model, last'.calls)
    /\ UNCHANGED <<fonts, font_size, line_width, all_chars, selected_font, shader, models,
                   rast, panic>>

(***************************************************************************)
(* The renderer: fonts are added, models created and drawn in any order    *)
(***************************************************************************)
Init ==
    FromRc(RendererChars, FontSize, Rat(1, 4),
           [widths |-> [c \in 1..MaxCode |-> MaxGlyphWidth], height |-> MaxGlyphHeight])

NextAddFont == Len(fonts) < MaxFonts /\ AddFont
NextAddFonts == \E n \in 0..2 : Len(fonts) + n <= MaxFonts /\ AddFonts([k \in 1..n |-> Arial])
NextStartRendering == \E canvas \in Canvases : StartRendering(canvas)
NextGetFontById == \E f \in DOMAIN fonts : GetFontById(f)
NextCreateTextModel ==
    \E f \in DOMAIN fonts, text \in RendererTexts :
        Len(models) < MaxModels /\ CreateTextModel(f, text)
NextRenderTextModel == \E m \in DOMAIN models, a \in DrawArgSet : RenderTextModel(m, a)
NextRender == \E m \in DOMAIN models, a \in DrawArgSet : Render(m, a)
NextGetRenderWidth == \E m \in DOMAIN models, s \in ScaleYs : GetRenderWidth(m, s)

Next ==
    \/ NextAddFont
    \/ NextAddFonts
    \/ NextStartRendering
    \/ NextGetFontById
    \/ NextCreateTextModel
    \/ NextRenderTextModel
    \/ NextRender
    \/ NextGetRenderWidth

Spec == Init /\ [][Next]_vars

(***************************************************************************)
(* One atlas: a font is built for a character set measured by some         *)
(* rasterizer, and one text is compiled against it                         *)
(***************************************************************************)
InitAtlas ==
    \E chars \in SmallCharSets, width \in LineWidths,
       w \in [1..MaxCode -> 0..MaxGlyphWidth], h \in 1..MaxGlyphHeight :
        FromRc(chars, FontSize, width, [widths |-> w, height |-> h])

BuildAtlas == fonts = <<>> /\ AddFont
CompileText == \E text \in Texts : models = <<>> /\ CreateTextModel(1, text)

NextAtlas ==
    \/ BuildAtlas
    \/ CompileText

SpecAtlas == InitAtlas /\ [][NextAtlas]_vars

(***************************************************************************)
(* The grid: a font is built for a character set of up to MaxGlyphCount    *)
(* glyphs                                                                  *)
(***************************************************************************)
\* the line widths of the large character sets: margins of 0, 1 and 3 pixels
GridLineWidths == LineWidths \cup {Rat(3, 4)}

\* the measured widths of the large character sets: two patterns that repeat with MaxCode
GridWidths ==
    {[c \in 1..MaxCode |-> (c % (MaxGlyphWidth + 1))],
     [c \in 1..MaxCode |-> IF c = 2 THEN MaxGlyphWidth ELSE 0]}

InitGrid ==
    \/ InitAtlas
    \/ \E chars \in LargeCharSets, width \in GridLineWidths, w \in GridWidths,
          h \in 1..MaxGlyphHeight :
           FromRc(chars, FontSize, width, [widths |-> w, height |-> h])

NextGrid == BuildAtlas

SpecGrid == InitGrid /\ [][NextGrid]_vars

(***************************************************************************)
(* The renderer whose public fields change between the fonts it builds     *)
(***************************************************************************)
\* the values the public fields are set to
FrameFontSizes == {FontSize, FontSize + 1}
FrameCharSets == {RendererChars, <<3, 1, 2>>}
FrameDrawArgs == {DrawArgs(One, Zero, One, Red, Blue, TransparentBlack)}

FrameSetFontSize == \E size \in FrameFontSizes : SetFontSize(size)
FrameSetLineWidth == \E width \in LineWidths : SetLineWidth(width)
FrameSetAllChars == \E chars \in FrameCharSets : SetAllChars(chars)
FrameAddFont == Len(fonts) < MaxFonts /\ AddFont
FrameAddFonts == Len(fonts) + 2 <= MaxFonts /\ AddFonts(<<Arial, Arial>>)
FrameStartRendering == \E canvas \in {None, Some(<<2, 1>>)} : StartRendering(canvas)
FrameCreateTextModel ==
    \E f \in DOMAIN fonts, text \in RendererTexts : models = <<>> /\ CreateTextModel(f, text)
FrameRenderTextModel == \E m \in DOMAIN models, a \in FrameDrawArgs : RenderTextModel(m, a)
FrameGetRenderWidth == \E m \in DOMAIN models : GetRenderWidth(m, One)

NextFrame ==
    \/ FrameSetFontSize
    \/ FrameSetLineWidth
    \/ FrameSetAllChars
    \/ FrameAddFont
    \/ FrameAddFonts
    \/ FrameStartRendering
    \/ FrameCreateTextModel
    \/ FrameRenderTextModel
    \/ FrameGetRenderWidth

SpecFrame == Init /\ [][NextFrame]_vars

(***************************************************************************)
(* The renderer and its text models until they go out of scope.  The       *)
(* methods of a renderer and of its fonts are called while the renderer    *)
(* lives, a text model is drawn while it lives.                            *)
(***************************************************************************)
LifeDrawArgs == {DrawArgs(One, Zero, One, Red, Blue, TransparentBlack)}

LifeAddFont == ~dropped.renderer /\ Len(fonts) < MaxFonts /\ AddFont
LifeAddFonts == ~dropped.renderer /\ Len(fonts) + 2 <= MaxFonts /\ AddFonts(<<Arial, Arial>>)
LifeStartRendering == ~dropped.renderer /\ StartRendering(Some(<<1, 1>>))
LifeCreateTextModel ==
    \E f \in DOMAIN fonts, text \in RendererTexts :
        ~dropped.renderer /\ Len(models) < MaxModels /\ CreateTextModel(f, text)
LifeRenderTextModel ==
    \E m \in DOMAIN models, a \in LifeDrawArgs :
        ~dropped.renderer /\ m \notin dropped.models /\ RenderTextModel(m, a)
LifeDropModel == \E m \in DOMAIN models : DropModel(m)
LifeDropTextRenderer == DropTextRenderer

NextLife ==
    \/ LifeAddFont
    \/ LifeAddFonts
    \/ LifeStartRendering
    \/ LifeCreateTextModel
    \/ LifeRenderTextModel
    \/ LifeDropModel
    \/ LifeDropTextRenderer

SpecLife == Init /\ [][NextLife]_vars

(***************************************************************************)
(* The shader program alone: its uniform setters are called one by one,    *)
(* in any order, on a program that was just created                        *)
(***************************************************************************)
\* the positions, scales and colors the setters are called with; zero is among them
SetterPairs == {<<Zero, Zero>>, <<One, Zero>>, <<Zero, FromInt(2)>>}
SetterColors == {TransparentBlack, Red, Blue}

\* one call of a setter of the TextProgram: st is the cache, the context and the calls after it
SetterCall(name, value, st) ==
    /\ panic = "none"
    /\ shader' = st.shader
    /\ gl' = st.gl
    /\ last' = Op(name, 0, 0, Some(value), st.calls, <<>>, None)
    /\ run' = RunAfter(last'.op, last'.font, last'.model, last'.calls)
    /\ UNCHANGED <<fonts, font_size, line_width, all_chars, selected_font, models, rast,
                   panic, dropped>>

SetScreenPosition ==
    \E p \in SetterPairs :
        SetterCall("set_screen_position", p,
                   set_screen_position([shader |-> shader, gl |-> gl, calls |-> <<>>], p[1], p[2]))

SetScale ==
    \E p \in SetterPairs :
        SetterCall("set_scale", p,
                   set_scale([shader |-> shader, gl |-> gl, calls |-> <<>>], p[1], p[2]))

SetFillColor ==
    \E c \in SetterColors :
        SetterCall("set_fill_color", c,
                   set_fill_color([shader |-> shader, gl |-> gl, calls |-> <<>>], c))

SetStrokeColor ==
    \E c \in SetterColors :
        SetterCall("set_stroke_color", c,
                   set_stroke_color([shader |-> shader, gl |-> gl, calls |-> <<>>], c))

SetBackgroundColor ==
    \E c \in SetterColors :
        SetterCall("set_background_color", c,
                   set_background_color([shader |-> shader, gl |-> gl, calls |-> <<>>], c))

NextUniforms ==
    \/ SetScreenPosition
    \/ SetScale
    \/ SetFillColor
    \/ SetStrokeColor
    \/ SetBackgroundColor

SpecUniforms == Init /\ [][NextUniforms]_vars

(***************************************************************************)
(* Notions the properties are stated with                                  *)
(***************************************************************************)
\* the font has a glyph for code point c
Present(font, c) == c \in DOMAIN font.characters /\ IsSome(font.characters[c])

GlyphOf(font, c) == Unwrap(font.characters[c])

\* the last operation compiled a text: the text, its font, and the model if one was made
Compiled == last.op = "create_text_model"
CompiledText == Unwrap(last.args)
CompiledFont == fonts[last.font]
Returned == Compiled /\ panic = "none" /\ last.model \in DOMAIN models
CompiledModel == models[last.model]

\* the positions in the compiled text of the characters without a glyph
AbsentIn(font, text) == {i \in DOMAIN text : ~Present(font, text[i])}

\* the characters of the text without a glyph, in order
RECURSIVE AbsentChars(_, _, _)
AbsentChars(font, text, i) ==
    IF i > Len(text) THEN <<>>
    ELSE (IF Present(font, text[i]) THEN <<>> ELSE <<text[i]>>) \o AbsentChars(font, text, i + 1)

\* the sum of the pixel widths of the glyphs of the first k characters of the text
RECURSIVE WidthSum(_, _, _)
WidthSum(font, text, k) ==
    IF k = 0 THEN 0
    ELSE WidthSum(font, text, k - 1)
         + (IF Present(font, text[k]) THEN GlyphOf(font, text[k]).width ELSE 0)

\* the x and the y coordinates of the i-th quad (from 0) of the block that starts after base
QuadXs(data, base, i) == {data[base + 12 * i + 2 * k - 1] : k \in 1..6}
QuadYs(data, base, i) == {data[base + 12 * i + 2 * k] : k \in 1..6}

\* the i-th character (from 0) has its position quad and its texture quad in the buffer
HasQuads(font, text, data, i) ==
    LET n == Len(text)
        h == font.max_text_height
        glyph == GlyphOf(font, text[i + 1])
    IN  /\ QuadXs(data, 0, i) = {Rat(WidthSum(font, text, i), h), Rat(WidthSum(font, text, i + 1), h)}
        /\ QuadYs(data, 0, i) = {Zero, One}
        /\ QuadXs(data, 12 * n, i) = {glyph.min_u, glyph.max_u}
        /\ QuadYs(data, 12 * n, i) = {glyph.min_v, glyph.max_v}

InUnit(a, b) == RLe(Zero, a) /\ RLe(a, b) /\ RLe(b, One)

(***************************************************************************)
(* C1                                                                      *)
(***************************************************************************)
\* C1 as stated: every built font has a glyph rectangle for exactly the code points of its
\* character set, each with 0 <= min_u <= max_u <= 1 and 0 <= min_v <= max_v <= 1, min_v
\* being the stored bottom-V and max_v the stored top-V.
C1_RectsWithMinVBelowMaxV ==
    \A f \in DOMAIN fonts :
        /\ {c \in DOMAIN fonts[f].characters : IsSome(fonts[f].characters[c])}
               = Range(fonts[f].chars)
        /\ \A c \in Range(fonts[f].chars) :
               /\ InUnit(GlyphOf(fonts[f], c).min_u, GlyphOf(fonts[f], c).max_u)
               /\ InUnit(GlyphOf(fonts[f], c).min_v, GlyphOf(fonts[f], c).max_v)

\* C1 amended: every built font has a glyph rectangle for exactly the code points of its
\* character set (one for a repeated character), each with 0 <= min_u <= max_u <= 1 and
\* 0 <= max_v <= min_v <= 1: the stored bottom-V (min_v) is the larger V, the stored top-V
\* (max_v) the smaller.
C1_OneRectPerCodePoint ==
    \A f \in DOMAIN fonts :
        /\ {c \in DOMAIN fonts[f].characters : IsSome(fonts[f].characters[c])}
               = Range(fonts[f].chars)
        /\ \A c \in Range(fonts[f].chars) :
               /\ Len(fonts[f].characters[c]) = 1
               /\ InUnit(GlyphOf(fonts[f], c).min_u, GlyphOf(fonts[f], c).max_u)
               /\ InUnit(GlyphOf(fonts[f], c).max_v, GlyphOf(fonts[f], c).min_v)

\* a font built for a character set with a repeated character, of glyphs two pixels high
C1_Witness ==
    /\ fonts # <<>>
    /\ \E i, j \in DOMAIN fonts[1].chars : i # j /\ fonts[1].chars[i] = fonts[1].chars[j]
    /\ Cardinality(Range(fonts[1].chars)) >= 2
    /\ \E c \in Range(fonts[1].chars) :
           RLt(GlyphOf(fonts[1], c).max_v, GlyphOf(fonts[1], c).min_v)

(***************************************************************************)
(* C2                                                                      *)
(***************************************************************************)
\* C2: a text of N characters that all have a glyph compiles to a buffer of 12N position
\* floats (the quads of the characters, in order) followed by 12N texture coordinate floats
\* (the rectangles of their glyphs), and a total_width of the sum of the glyphs' pixel
\* widths divided by the max glyph height.
C2_AllPresent ==
    (Compiled /\ AbsentIn(CompiledFont, CompiledText) = {}) =>
        /\ Returned
        /\ DOMAIN CompiledModel.buffer_data = 1..(24 * Len(CompiledText))
        /\ \A i \in 0..(Len(CompiledText) - 1) :
               HasQuads(CompiledFont, CompiledText, CompiledModel.buffer_data, i)
        /\ CompiledModel.total_width
               = Rat(WidthSum(CompiledFont, CompiledText, Len(CompiledText)),
                     CompiledFont.max_text_height)

\* a text of three characters, not all the same, compiled against an atlas of two rows
\* that has them all
C2_Witness ==
    /\ Returned
    /\ Len(CompiledText) = 3
    /\ Cardinality(Range(CompiledText)) >= 2
    /\ AbsentIn(CompiledFont, CompiledText) = {}
    /\ CompiledFont.rows = 2
    /\ CompiledModel.total_width # Zero

C4_NeverAborts == Compiled => Returned

(***************************************************************************)
(* C10                                                                     *)
(***************************************************************************)
\* C10: the grid of a font of n glyphs has ceil(sqrt(n)) columns and ceil(n / columns)
\* rows; 100 glyphs give 10 columns and 10 rows.
C10_Grid ==
    \A f \in DOMAIN fonts :
        LET n == Len(fonts[f].chars)
            columns == fonts[f].chars_per_row
            rows == fonts[f].rows
        IN  /\ columns * columns >= n /\ (columns - 1) * (columns - 1) < n
            /\ rows * columns >= n /\ (rows - 1) * columns < n
            /\ n = 100 => (columns = 10 /\ rows = 10)

\* a font of 100 glyphs is built
C10_Witness == fonts # <<>> /\ Len(fonts[1].chars) = 100 /\ fonts[1].rows = 10

(***************************************************************************)
(* C5                                                                      *)
(***************************************************************************)
Drew == last.op = "render_text_model"

\* C5: a draw that directly follows a draw of the same font with the same screen position,
\* scale and colors writes none of the five uniforms, binds no texture and does not set
\* the sampler uniform.
C5_RepeatedDrawWritesNothing ==
    last.repeat =>
        \A i \in DOMAIN last.calls :
            /\ ~IsUniformWrite(last.calls[i])
            /\ ~IsTextureBind(last.calls[i])
            /\ ~IsSamplerSet(last.calls[i])

\* a draw repeated with arguments that differ from what a new program caches
C5_Witness ==
    /\ last.repeat
    /\ Unwrap(last.args).fill_color = Red
    /\ gl.fillColor = Red
    /\ gl.scale # <<Zero, Zero>>
    /\ gl.bound_texture = Some(fonts[last.font].texture)

(***************************************************************************)
(* C6                                                                      *)
(***************************************************************************)
\* C6: when the two draws that directly follow a start_rendering are of two models of one
\* font, they bind the texture once: the first draw binds it, the second does not.
C6_OneBindForTwoLayouts ==
    (run.draws = 2 /\ Cardinality(run.fonts) = 1 /\ Cardinality(run.models) = 2) =>
        /\ run.binds = 1
        /\ CountCalls(last.calls, IsTextureBind) = 0
        /\ CountCalls(last.calls, IsSamplerSet) = 0

\* two models of one font drawn in a row after start_rendering
C6_Witness ==
    /\ Drew
    /\ run.draws = 2
    /\ Cardinality(run.fonts) = 1
    /\ Cardinality(run.models) = 2
    /\ selected_font = Some(fonts[last.font].id)

(***************************************************************************)
(* C7                                                                      *)
(***************************************************************************)
\* C7: a draw of a font other than the font of the draw before binds the texture of the
\* drawn font and leaves the drawn font selected.
C7_DifferentFontRebinds ==
    (Drew /\ last.after \notin {0, last.font}) =>
        /\ \E i \in DOMAIN last.calls :
               last.calls[i] = Call("bind_texture", "TEXTURE_2D", fonts[last.font].texture)
        /\ gl.bound_texture = Some(fonts[last.font].texture)
        /\ selected_font = Some(get_id(fonts[last.font]))

(***************************************************************************)
(* C8                                                                      *)
(***************************************************************************)
\* C8: the fonts of a renderer have pairwise distinct ids, and get_font_by_id of the id of a
\* font returns that font.
C8_DistinctFontIDs ==
    /\ \A f, g \in DOMAIN fonts : f # g => get_id(fonts[f]) # get_id(fonts[g])
    /\ last.op = "get_font_by_id" => last.result = Some(FromInt(last.font))

(***************************************************************************)
(* C9                                                                      *)
(***************************************************************************)
\* the x extent of the position quads of a model, in the units of the vertex buffer
PositionXs(model) == {model.buffer_data[2 * k - 1] : k \in 1..model.vertex_count}
RMax(S) == CHOOSE a \in S : \A b \in S : RLe(b, a)
RMin(S) == CHOOSE a \in S : \A b \in S : RLe(a, b)
RSub(a, b) == Rat(a[1] * b[2] - b[1] * a[2], a[2] * b[2])
Extent(model) ==
    IF PositionXs(model) = {} THEN Zero
    ELSE RSub(RMax(PositionXs(model)), RMin(PositionXs(model)))

C11_AtlasNeverMutated ==
    [][\A f \in DOMAIN fonts :
           /\ f \in DOMAIN fonts'
           /\ fonts'[f].characters = fonts[f].characters
           /\ fonts'[f].max_text_height = fonts[f].max_text_height]_vars

\* two fonts built for different character sets, font sizes and line widths, the canvas
\* shape taken over by start_rendering, a model of the first font drawn, and the three
\* public fields now different from what the first font was built with
C11_Witness ==
    /\ Len(fonts) = 2
    /\ fonts[1].chars = RendererChars
    /\ fonts[2].chars # RendererChars
    /\ fonts[1].line_margin # fonts[2].line_margin
    /\ fonts[1].total_width # fonts[2].total_width
    /\ fonts[1].aspect_ratio = FromInt(2)
    /\ gl.fillColor = Red
    /\ models # <<>> /\ models[1].font = 1
    /\ all_chars # fonts[1].chars
    /\ font_size # FontSize
    /\ last.op = "get_render_width"

(***************************************************************************)
(* C12                                                                     *)
(***************************************************************************)
\* the five tracked uniforms, by the name of the uniform in the shader source
TrackedUniforms == {"screenPosition", "scale", "fillColor", "strokeColor", "backgroundColor"}

\* the value a draw of font with arguments a requests for a tracked uniform
Requested(font, a, u) ==
    CASE u = "screenPosition" -> <<a.offset_x, a.offset_y>>
      [] u = "scale" -> <<RDiv(a.scale_y, font.aspect_ratio), a.scale_y>>
      [] u = "fillColor" -> a.fill_color
      [] u = "strokeColor" -> a.stroke_color
      [] u = "backgroundColor" -> a.background_color

\* the value of a tracked uniform the shader cache holds, and the one the WebGL context holds
Cached(sh, u) ==
    CASE u = "screenPosition" -> sh.current_screen_position
      [] u = "scale" -> sh.current_scale
      [] u = "fillColor" -> sh.current_fill_color
      [] u = "strokeColor" -> sh.current_stroke_color
      [] u = "backgroundColor" -> sh.current_background_color

OnGPU(g, u) ==
    CASE u = "screenPosition" -> g.screenPosition
      [] u = "scale" -> g.scale
      [] u = "fillColor" -> g.fillColor
      [] u = "strokeColor" -> g.strokeColor
      [] u = "backgroundColor" -> g.backgroundColor

\* how often the calls write the uniform u
WritesTo(calls, u) ==
    Cardinality({i \in DOMAIN calls : IsUniformWrite(calls[i]) /\ calls[i].target = u})

ZeroOf(u) == IF u \in {"screenPosition", "scale"} THEN <<Zero, Zero>> ELSE TransparentBlack

\* C12 as stated: every tracked uniform starts Unset, so the first draw after the program
\* is created writes all five uniforms whatever the values are; a later draw writes a
\* uniform when the requested value differs from the cached one, and a written uniform is
\* cached.
C12_FirstSetWritesThrough ==
    [][IsDraw(last'.op) =>
        \A u \in TrackedUniforms :
            LET req == Requested(fonts[last'.font], Unwrap(last'.args), u)
            IN  /\ (last'.after = 0 /\ ~last'.repeat) => WritesTo(last'.calls, u) = 1
                /\ req # Cached(shader, u) => WritesTo(last'.calls, u) = 1
                /\ Cached(shader', u) = req]_vars

\* C12 amended: every tracked uniform starts as set to zero (position and scale (0, 0),
\* the colors transparent black); a draw writes a uniform to the GPU, once, exactly when
\* the requested value differs from the cached one, and then the cache and the GPU hold
\* the requested value; otherwise the cache and the GPU value stay as they were.  So the
\* first draw after the program is created writes a uniform exactly when the requested
\* value is not zero.
C12_WritesWhenDiffersFromCache ==
    [][/\ last.op = "from_rc" => \A u \in TrackedUniforms : Cached(shader, u) = ZeroOf(u)
       /\ IsDraw(last'.op) =>
            \A u \in TrackedUniforms :
                LET req == Requested(fonts[last'.font], Unwrap(last'.args), u)
                IN  IF req # Cached(shader, u)
                    THEN /\ WritesTo(last'.calls, u) = 1
                         /\ Cached(shader', u) = req
                         /\ OnGPU(gl', u) = req
                    ELSE /\ WritesTo(last'.calls, u) = 0
                         /\ Cached(shader', u) = Cached(shader, u)
                         /\ OnGPU(gl', u) = OnGPU(gl, u)]_vars

\* the first draw of a new program, with position and scale (0, 0) and transparent black
\* colors, writes no uniform
C12_Witness ==
    /\ Drew
    /\ last.after = 0
    /\ ~last.repeat
    /\ \A u \in TrackedUniforms :
           /\ Requested(fonts[last.font], Unwrap(last.args), u) = ZeroOf(u)
           /\ WritesTo(last.calls, u) = 0

(***************************************************************************)
(* C13                                                                     *)
(***************************************************************************)
\* the twelve floats of the i-th quad (from 0) of the block that starts after base
QuadAt(data, base, i) == [k \in 1..12 |-> data[base + 12 * i + k]]

\* a quad as the fan bottom-left, bottom-right, top-right, top-right, top-left, bottom-left
Fan(left, bottom, right, top) ==
    <<left, bottom, right, bottom, right, top, right, top, left, top, left, bottom>>

\* the pen position before the i-th character (from 0): the pixel widths of the resolved
\* characters before it, over the max glyph height
PenX(font, text, i) == Rat(WidthSum(font, text, i), font.max_text_height)

\* C13: in a compiled text every resolved character has, at its index, a position quad from
\* the pen position to the pen position plus its width over the max glyph height, over y
\* 0..1; the pen starts at 0 and only resolved characters advance it; the six vertices go
\* bottom-left, bottom-right, top-right, top-right, top-left, bottom-left; the texture quad
\* has the corners left-U, bottom-V, right-U, top-V of the glyph in the same order; and
\* total_width is the final pen position.
C13_QuadsInPenOrder ==
    Returned =>
        LET n == Len(CompiledText)
            data == CompiledModel.buffer_data
        IN  /\ PenX(CompiledFont, CompiledText, 0) = Zero
            /\ \A i \in 0..(n - 1) :
                   IF Present(CompiledFont, CompiledText[i + 1])
                   THEN LET glyph == GlyphOf(CompiledFont, CompiledText[i + 1])
                            pen == PenX(CompiledFont, CompiledText, i)
                            advance == Rat(get_width(glyph), CompiledFont.max_text_height)
                            next == Rat(pen[1] * advance[2] + advance[1] * pen[2],
                                        pen[2] * advance[2])
                        IN  /\ QuadAt(data, 0, i) = Fan(pen, Zero, next, One)
                            /\ QuadAt(data, 12 * n, i)
                                   = Fan(get_left_u(glyph), get_bottom_v(glyph),
                                         get_right_u(glyph), get_top_v(glyph))
                            /\ PenX(CompiledFont, CompiledText, i + 1) = next
                   ELSE PenX(CompiledFont, CompiledText, i + 1)
                            = PenX(CompiledFont, CompiledText, i)
            /\ CompiledModel.total_width = PenX(CompiledFont, CompiledText, n)

\* a text of three characters compiled whose first character has no glyph: the quad of the
\* second starts at pen position 0, the two glyphs differ in their rectangles
C13_Witness ==
    /\ Returned
    /\ Len(CompiledText) = 3
    /\ AbsentIn(CompiledFont, CompiledText) = {1}
    /\ CompiledModel.buffer_data[13] = Zero
    /\ CompiledModel.buffer_data[15] # Zero
    /\ CompiledModel.buffer_data[25] = CompiledModel.buffer_data[15]
    /\ QuadAt(CompiledModel.buffer_data, 36, 1) # QuadAt(CompiledModel.buffer_data, 36, 2)
    /\ CompiledFont.rows = 2

(***************************************************************************)
(* C14                                                                     *)
(***************************************************************************)
\* the sum of (glyph width + 2 x margin) over the glyphs from..to of the character set
RECURSIVE SumCells(_, _, _)
SumCells(font, from, to) ==
    IF from > to THEN 0
    ELSE SumCells(font, from, to - 1) + font.char_sizes[to][1] + 2 * font.line_margin

\* the indices (from 1) of the first and of the last glyph of grid row r (from 0)
RowFirst(font, r) == r * font.chars_per_row + 1
RowLast(font, r) ==
    IF (r + 1) * font.chars_per_row > Len(font.chars)
    THEN Len(font.chars) ELSE (r + 1) * font.chars_per_row

\* C14: the atlas is as wide as its widest grid row, the width of a row being the sum of
\* (glyph width + 2 x margin) over its glyphs, and rows x max glyph height high, the max
\* glyph height being the largest height of all the glyphs.
C14_AtlasSize ==
    \A f \in DOMAIN fonts :
        LET font == fonts[f]
            widths == {SumCells(font, RowFirst(font, r), RowLast(font, r)) :
                           r \in 0..(font.rows - 1)}
            heights == {font.char_sizes[k][2] : k \in DOMAIN font.char_sizes}
        IN  /\ font.total_width \in widths
            /\ \A w \in widths : w <= font.total_width
            /\ font.max_text_height \in heights
            /\ \A h \in heights : h <= font.max_text_height
            /\ font.total_height = font.rows * font.max_text_height

\* an atlas of three rows with a margin whose widest row is not the first one
C14_Witness ==
    /\ fonts # <<>>
    /\ fonts[1].rows = 3
    /\ fonts[1].max_text_height = MaxGlyphHeight
    /\ fonts[1].line_margin > 0
    /\ SumCells(fonts[1], RowFirst(fonts[1], 0), RowLast(fonts[1], 0)) < fonts[1].total_width
    /\ fonts[1].total_height = 3 * MaxGlyphHeight

(***************************************************************************)
(* C15                                                                     *)
(***************************************************************************)
\* C15: the k-th glyph (from 0) of the character set lies in grid row k div columns: its
\* box starts at min_y = (k div columns) x max glyph height and at min_x = the sum of
\* (glyph width + 2 x margin) over the glyphs before it in that row.
C15_RowMajorCells ==
    \A f \in DOMAIN fonts :
        LET font == fonts[f]
        IN  /\ Len(font.boxes) = Len(font.chars)
            /\ \A k \in 0..(Len(font.chars) - 1) :
                   LET row == k \div font.chars_per_row
                   IN  /\ font.boxes[k + 1].min_y = row * font.max_text_height
                       /\ font.boxes[k + 1].min_x = SumCells(font, RowFirst(font, row), k)

\* an atlas of three columns and two rows whose last glyph is not the first of its row
C15_Witness ==
    /\ fonts # <<>>
    /\ fonts[1].chars_per_row = 3
    /\ Len(fonts[1].chars) = 5
    /\ fonts[1].boxes[5].min_x > 0
    /\ fonts[1].boxes[5].min_y = fonts[1].max_text_height
    /\ fonts[1].boxes[4].min_x = 0

(***************************************************************************)
(* C16                                                                     *)
(***************************************************************************)
\* the index of the glyph the font keeps for code point c: its last occurrence in chars
LastIndex(font, c) ==
    CHOOSE k \in DOMAIN font.chars :
        font.chars[k] = c /\ \A j \in DOMAIN font.chars : font.chars[j] = c => j <= k

\* the box of glyph k starts at the start of its cell
StartsAtCell(font, k) ==
    LET row == (k - 1) \div font.chars_per_row
    IN  /\ font.boxes[k].min_x = SumCells(font, RowFirst(font, row), k - 1)
        /\ font.boxes[k].min_y = row * font.max_text_height

\* C16 as stated: the box recorded for a glyph is its cell: it starts at the cell's min_x
\* and min_y, is glyph width + 2 x margin pixels wide and max glyph height pixels high, and
\* the pixel width of the glyph's rectangle is that cell width.
C16_BoxIsTheCell ==
    \A f \in DOMAIN fonts :
        LET font == fonts[f]
        IN  \A k \in DOMAIN font.chars :
                LET box == font.boxes[k]
                    cell_width == font.char_sizes[k][1] + 2 * font.line_margin
                IN  /\ StartsAtCell(font, k)
                    /\ box.max_x - box.min_x + 1 = cell_width
                    /\ box.max_y - box.min_y + 1 = font.max_text_height
                    /\ k = LastIndex(font, font.chars[k])
                           => get_width(GlyphOf(font, font.chars[k])) = cell_width

\* C16 amended: the box recorded for a glyph starts at its cell's min_x and min_y, ends at
\* max_x = min_x + glyph width + margin and max_y = min_y + max glyph height - 1, so it is
\* glyph width + margin + 1 pixels wide and max glyph height pixels high, and the pixel
\* width of the glyph's rectangle is glyph width + margin + 1.
C16_BoxIsGlyphPlusMargin ==
    \A f \in DOMAIN fonts :
        LET font == fonts[f]
        IN  \A k \in DOMAIN font.chars :
                LET box == font.boxes[k]
                    box_width == font.char_sizes[k][1] + font.line_margin + 1
                IN  /\ StartsAtCell(font, k)
                    /\ box.max_x = box.min_x + font.char_sizes[k][1] + font.line_margin
                    /\ box.max_x - box.min_x + 1 = box_width
                    /\ box.max_y = box.min_y + font.max_text_height - 1
                    /\ k = LastIndex(font, font.chars[k])
                           => get_width(GlyphOf(font, font.chars[k])) = box_width

\* an atlas with a margin of 3 pixels: the box of a glyph is narrower than its cell
C16_Witness ==
    /\ fonts # <<>>
    /\ fonts[1].line_margin = 3
    /\ Len(fonts[1].chars) > 4
    /\ fonts[1].boxes[2].max_x - fonts[1].boxes[2].min_x + 1
           < fonts[1].char_sizes[2][1] + 2 * fonts[1].line_margin
    /\ get_width(GlyphOf(fonts[1], fonts[1].chars[2])) = fonts[1].char_sizes[2][1] + 4

(***************************************************************************)
(* C17                                                                     *)
(***************************************************************************)
\* C17: the rectangle of a glyph with pixel box (min_x, min_y, max_x, max_y) in an atlas of
\* W x H pixels has left_u = min_x / (W + 1), right_u = max_x / (W + 1),
\* bottom_v = max_y / (H + 1) and top_v = min_y / (H + 1): V is flipped, the bottom-V is
\* not below the top-V.
C17_PixelBoxToRect ==
    \A f \in DOMAIN fonts :
        LET font == fonts[f]
        IN  \A c \in Range(font.chars) :
                LET box == font.boxes[LastIndex(font, c)]
                    glyph == GlyphOf(font, c)
                IN  /\ get_left_u(glyph) = Rat(box.min_x, font.total_width + 1)
                    /\ get_right_u(glyph) = Rat(box.max_x, font.total_width + 1)
                    /\ get_bottom_v(glyph) = Rat(box.max_y, font.total_height + 1)
                    /\ get_top_v(glyph) = Rat(box.min_y, font.total_height + 1)
                    /\ RLe(get_top_v(glyph), get_bottom_v(glyph))

\* a glyph two pixels high in the second row of its atlas: its bottom-V is above its top-V
C17_Witness ==
    /\ fonts # <<>>
    /\ fonts[1].rows = 2
    /\ fonts[1].max_text_height = 2
    /\ \E c \in Range(fonts[1].chars) :
           /\ fonts[1].boxes[LastIndex(fonts[1], c)].min_y = 2
           /\ get_top_v(GlyphOf(fonts[1], c)) = Rat(2, fonts[1].total_height + 1)
           /\ RLt(get_top_v(GlyphOf(fonts[1], c)), get_bottom_v(GlyphOf(fonts[1], c)))
           /\ RLt(get_left_u(GlyphOf(fonts[1], c)), get_right_u(GlyphOf(fonts[1], c)))

(***************************************************************************)
(* C18                                                                     *)
(***************************************************************************)
\* C18: start_rendering leaves no font selected, with or without a canvas; no operation
\* but a draw selects one; and a draw that finds no font selected, the first draw after a
\* start_rendering, binds the texture of its font and sets the sampler uniform, whichever
\* font was drawn before.
C18_FirstDrawAfterStartBinds ==
    [][/\ last'.op = "start_rendering" => selected_font' = None
       /\ (selected_font = None /\ ~IsDraw(last'.op)) => selected_font' = None
       /\ (selected_font = None /\ IsDraw(last'.op)) =>
              /\ \E i \in DOMAIN last'.calls :
                     last'.calls[i] = Call("bind_texture", "TEXTURE_2D", fonts[last'.font].texture)
              /\ CountCalls(last'.calls, IsSamplerSet) = 1
              /\ gl'.bound_texture = Some(fonts[last'.font].texture)
              /\ selected_font' = Some(get_id(fonts[last'.font]))]_vars

\* a font is drawn, start_rendering finds no canvas, and the same font is drawn again: the
\* draw binds the texture
C18_Witness ==
    /\ Drew
    /\ run.draws = 1
    /\ last.after = last.font
    /\ ~gl.program_in_use
    /\ CountCalls(last.calls, IsTextureBind) = 1
    /\ CountCalls(last.calls, IsSamplerSet) = 1

(***************************************************************************)
(* C20                                                                     *)
(***************************************************************************)
\* the step of a draw a WebGL call belongs to: 1 the texture bind with the sampler uniform,
\* 2 the writes of the tracked uniforms, 3 the vertex buffer bind with the attribute
\* pointers, 4 the draw call
StepOf(c) ==
    IF c.call \in {"active_texture", "bind_texture", "uniform1i"} THEN 1
    ELSE IF c.call \in {"uniform2f", "uniform4f"} THEN 2
    ELSE IF c.call \in {"bind_buffer", "vertex_attrib_pointer", "enable_vertex_attrib_array"}
    THEN 3
    ELSE IF c.call = "draw_arrays" THEN 4
    ELSE 0

\* the characters of the text a model was compiled from: 24 floats for each
CharsOf(model) == Len(model.buffer_data) \div 24

\* C20: the WebGL calls of a draw come in the order texture bind (if any), uniform writes
\* (if any), vertex buffer bind with the two attribute pointers, and then one draw call,
\* the last call of the draw, for 6 vertices per character of the layout: no texture bind
\* and no uniform write comes after the draw call.
C20_DrawStepsInOrder ==
    Drew =>
        LET calls == last.calls
            n == Len(calls)
        IN  /\ n >= 1
            /\ \A i \in 1..n : StepOf(calls[i]) \in 1..4
            /\ \A i, j \in 1..n : i < j => StepOf(calls[i]) <= StepOf(calls[j])
            /\ {i \in 1..n : StepOf(calls[i]) = 4} = {n}
            /\ calls[n] = Call("draw_arrays", "TRIANGLES", 6 * CharsOf(models[last.model]))
            /\ \E i \in 1..n : calls[i] = Call("bind_buffer", "ARRAY_BUFFER",
                                                models[last.model].buffer)
            /\ Cardinality({i \in 1..n : calls[i].call = "vertex_attrib_pointer"}) = 2

\* a draw of a model of two characters that binds the texture and writes all five uniforms
C20_Witness ==
    /\ Drew
    /\ CharsOf(models[last.model]) = 2
    /\ CountCalls(last.calls, IsTextureBind) = 1
    /\ CountCalls(last.calls, IsUniformWrite) = 5
    /\ last.calls[Len(last.calls)].n = 12

(***************************************************************************)
(* C19                                                                     *)
(***************************************************************************)
\* the handles a WebGL call refers to
HandlesOf(c) ==
    IF c.call \in {"create_texture", "bind_texture", "tex_image_2d", "delete_texture"}
    THEN {TextureHandle(c.n)}
    ELSE IF c.call \in {"create_buffer", "bind_buffer", "buffer_data", "delete_buffer"}
    THEN {BufferHandle(c.n)}
    ELSE IF c.call = "delete_shader"
    THEN {<<c.target, 0>>}
    ELSE IF c.call \in {"use_program", "delete_program", "uniform1i", "uniform2f", "uniform4f",
                        "vertex_attrib_pointer", "enable_vertex_attrib_array", "draw_arrays"}
    THEN {ProgramHandle}
    ELSE {}

IsDelete(c) == c.call \in {"delete_texture", "delete_buffer", "delete_program", "delete_shader"}

\* the handles owned by the owners destroyed so far
HandlesOfDropped ==
    {BufferHandle(models[m].buffer) : m \in dropped.models}
    \cup (IF dropped.renderer
          THEN {TextureHandle(fonts[f].texture) : f \in DOMAIN fonts}
               \cup {ProgramHandle, VertexShaderHandle, FragmentShaderHandle}
          ELSE {})

\* the handles deleted before the last operation
DeletedBefore ==
    Range(gl.deleted) \ UNION {HandlesOf(last.calls[i]) :
                                  i \in {j \in DOMAIN last.calls : IsDelete(last.calls[j])}}

SelectedFonts ==
    {k \in DOMAIN fonts : IsSome(selected_font) /\ get_id(fonts[k]) = Unwrap(selected_font)}

\* C21: whenever the current-font slot holds font F, the texture bound to the texture
\* unit is the atlas texture of F, so that a draw of F that skips the bind samples the
\* atlas of F
C21_SelectedFontIsBound ==
    \A k \in SelectedFonts : gl.bound_texture = Some(fonts[k].texture)

(***************************************************************************)
(* C22                                                                     *)
(***************************************************************************)
\* the tracked uniform a setter writes
UniformOf(name) ==
    CASE name = "set_screen_position" -> "screenPosition"
      [] name = "set_scale" -> "scale"
      [] name = "set_fill_color" -> "fillColor"
      [] name = "set_stroke_color" -> "strokeColor"
      [] name = "set_background_color" -> "backgroundColor"
      [] OTHER -> "none"

\* C22: on a program whose uniforms start at zero, before and after every setter call
\* each cached value equals the value the GPU uniform holds; the setter called leaves its
\* uniform, cache and GPU, at the value it was called with, and every other uniform as it
\* was: so each value is the one requested last, or zero when none was requested yet.
C22_CacheMirrorsGPU ==
    [][/\ \A u \in TrackedUniforms : Cached(shader, u) = OnGPU(gl, u)
       /\ last.op = "from_rc" => \A u \in TrackedUniforms : OnGPU(gl, u) = ZeroOf(u)
       /\ \A u \in TrackedUniforms :
              /\ Cached(shader', u) = OnGPU(gl', u)
              /\ IF UniformOf(last'.op) = u
                 THEN OnGPU(gl', u) = Unwrap(last'.args)
                 ELSE OnGPU(gl', u) = OnGPU(gl, u)]_vars

\* the stroke color is set to blue when the cache holds blue already: the call writes
\* nothing, and the cache and the GPU hold blue; the fill color is red, the scale not zero
C22_Witness ==
    /\ last.op = "set_stroke_color"
    /\ Unwrap(last.args) = Blue
    /\ last.calls = <<>>
    /\ shader.current_stroke_color = Blue
    /\ gl.strokeColor = Blue
    /\ gl.fillColor = Red
    /\ shader.current_scale = <<Zero, FromInt(2)>>

(***************************************************************************)
(* C23                                                                     *)
(***************************************************************************)
\* the pixel rectangles [min_x, max_x] x [min_y, max_y] of two boxes have a pixel in common
SharePixel(a, b) ==
    /\ a.min_x <= b.max_x /\ b.min_x <= a.max_x
    /\ a.min_y <= b.max_y /\ b.min_y <= a.max_y

\* the box lies inside an image of the given width and height
InsideImage(a, width, height) ==
    /\ 0 <= a.min_x /\ a.min_x <= a.max_x /\ a.max_x <= width - 1
    /\ 0 <= a.min_y /\ a.min_y <= a.max_y /\ a.max_y <= height - 1

\* C23: in every atlas, whatever the stroke margin (0 included), the pixel rectangles
\* recorded for two glyphs of different cells share no pixel, and every recorded
\* rectangle lies inside the atlas image.
C23_BoxesDisjointInsideAtlas ==
    \A f \in DOMAIN fonts :
        LET font == fonts[f]
        IN  /\ \A i, j \in DOMAIN font.boxes :
                   i # j => ~SharePixel(font.boxes[i], font.boxes[j])
            /\ \A i \in DOMAIN font.boxes :
                   InsideImage(font.boxes[i], font.total_width, font.total_height)

(***************************************************************************)
(* C24                                                                     *)
(***************************************************************************)
\* the byte offset bind gives the textureCoords attribute for the model
TextureCoordsOffset(model) ==
    LET calls == bind([shader |-> shader, gl |-> gl, calls |-> <<>>], model).calls
        i == CHOOSE k \in DOMAIN calls :
                 calls[k].call = "vertex_attrib_pointer" /\ calls[k].target = "textureCoords"
    IN  calls[i].n

\* the size of an f32 in bytes, and a quad of zeros
BytesPerFloat == 4
ZeroQuad == [k \in 1..12 |-> Zero]

\* C24: for every layout returned, unknown characters in the text or not, the byte offset
\* bind gives the texture-coordinate attribute is the byte length of the position block
\* (12 floats for every character of the text), the texture coordinates read from there
\* stay inside the buffer, and the i-th character has its UV quad at index i of the block
\* that starts at that offset as it has its position quad at index i of the position
\* block: both are the quads of its glyph, or both are left zero when it has no glyph.
C24_TextureOffsetIsPositionLength ==
    Returned =>
        LET n == Len(CompiledText)
            data == CompiledModel.buffer_data
            offset == TextureCoordsOffset(CompiledModel)
            base == offset \div BytesPerFloat
        IN  /\ offset = BytesPerFloat * position_floats_per_char * n
            /\ base * BytesPerFloat = offset
            /\ base + 2 * CompiledModel.vertex_count = Len(data)
            /\ \A i \in 0..(n - 1) :
                   IF Present(CompiledFont, CompiledText[i + 1])
                   THEN LET glyph == GlyphOf(CompiledFont, CompiledText[i + 1])
                        IN  /\ QuadYs(data, 0, i) = {Zero, One}
                            /\ QuadAt(data, base, i)
                                   = Fan(get_left_u(glyph), get_bottom_v(glyph),
                                         get_right_u(glyph), get_top_v(glyph))
                   ELSE /\ QuadAt(data, 0, i) = ZeroQuad
                        /\ QuadAt(data, base, i) = ZeroQuad

\* a layout of three characters whose second has no glyph: the offset is 144 bytes, and
\* the UV quad of the third character, at index 2 of the UV block, is that of its glyph
\* and differs from the one of the first character
C24_Witness ==
    /\ Returned
    /\ Len(CompiledText) = 3
    /\ AbsentIn(CompiledFont, CompiledText) = {2}
    /\ TextureCoordsOffset(CompiledModel) = 144
    /\ QuadAt(CompiledModel.buffer_data, 36, 1) = ZeroQuad
    /\ QuadAt(CompiledModel.buffer_data, 36, 2) # ZeroQuad
    /\ QuadAt(CompiledModel.buffer_data, 36, 2) # QuadAt(CompiledModel.buffer_data, 36, 0)

(***************************************************************************)
(* C25                                                                     *)
(***************************************************************************)
\* C25: the construction of an atlas completes without a fault for every character set,
\* the empty one included, and the grid of the font it returns has a cell for every
\* glyph: columns x rows >= n.
C25_GridWithoutFault ==
    last.op = "add_font" =>
        /\ panic = "none"
        /\ last.font \in DOMAIN fonts
        /\ fonts[last.font].chars = all_chars
        /\ fonts[last.font].chars_per_row * fonts[last.font].rows >= Len(all_chars)

====
